---- MODULE Spec2Model ----
(***************************************************************************)
(* Amenity-proximity aggregation of rahavdayan/zillow-scraper.             *)
(*                                                                         *)
(* Two analyzers are modelled from their source:                           *)
(*   "detailed" : src/detailed_amenity_analyzer.py (DetailedAmenityAnalyzer)*)
(*   "rated"    : src/amenity_analyzer.py          (AmenityAnalyzer)       *)
(*                                                                         *)
(* Python values are tagged records so that None, '' and 0 stay distinct;  *)
(* a str is the sequence of its characters.  Coordinates are integers in   *)
(* units of 1e-7 degree, sleeps are integers in tenths of a second.        *)
(***************************************************************************)
EXTENDS Integers, Sequences, FiniteSets, TLC

VARIABLES
    variant,        \* which analyzer runs: "detailed" | "rated"
    google_api_key, \* AmenityAnalyzer.google_api_key is set (rated only)
    properties,     \* the loaded rows (self.properties / df), in file order
    max_properties, \* argument of analyze_properties (detailed only)
    pc,             \* position of the batch loop
    idx,            \* number of rows the loop has consumed
    cur,            \* the record being built for the row in progress
    cat,            \* 1-based index of the category being queried
    tag,            \* 1-based index of the tag being searched (rated only)
    geo,            \* what the geocoder returned for the row in progress
    category_amenities, \* the points collected for the category in progress (rated only)
    emitted,        \* enhanced_properties / amenity_data
    events,         \* pacing sleeps and provider calls of the row in progress, in order
    logs,           \* warning/error/debug log records written by the latest step
    catalog,        \* self.amenity_types / self.amenity_categories, in dict order
    now,            \* the wall clock, in tenths of a second
    saved,          \* the rows written to the output file
    failed,         \* the categories of which a query call failed, for the row in progress
    measured        \* two points and the distances calculate_distance returned for them

vars == <<variant, google_api_key, properties, max_properties, pc, idx, cur,
          cat, tag, geo, category_amenities, emitted, events, logs, catalog, now, saved,
          failed, measured>>

(***************************************************************************)
(* Bounds of the model.                                                    *)
(***************************************************************************)
\* rows per batch
MaxListings == 2
\* categories of the detailed catalog that a run iterates (one call per category)
MaxCategories == 2
\* categories of the rated catalog that a run iterates (one call per type of a category)
MaxRatedCategories == 1

(***************************************************************************)
(* Python values.                                                          *)
(***************************************************************************)
None == [py |-> "None"]
\* the dict holds no such key
Absent == [py |-> "absent"]
NaN == [py |-> "nan"]
Str(s) == [py |-> "str", chars |-> s]
Num(n) == [py |-> "num", v |-> n]

\* bool(v): None, '' and 0 are falsy; float('nan') and every other value is truthy
Truthy(v) ==
    CASE v.py = "None" -> FALSE
      [] v.py = "str" -> Len(v.chars) > 0
      [] v.py = "num" -> v.v # 0
      [] OTHER -> TRUE

IsWhitespace(c) == c \in {" ", "\t", "\n"}

RECURSIVE LStrip(_)
LStrip(s) == IF s # <<>> /\ IsWhitespace(Head(s)) THEN LStrip(Tail(s)) ELSE s

RECURSIVE RStrip(_)
RStrip(s) ==
    IF s # <<>> /\ IsWhitespace(s[Len(s)]) THEN RStrip(SubSeq(s, 1, Len(s) - 1)) ELSE s

\* str.strip()
Strip(s) == RStrip(LStrip(s))

\* the literal ', NY'
NYSuffix == <<",", " ", "N", "Y">>

(***************************************************************************)
(* Category catalogs, in insertion order.                                  *)
(***************************************************************************)
\* DetailedAmenityAnalyzer.amenity_types (first entries, in dict order)
AmenityTypesAll ==
    << [key |-> "elementary_school", tags |-> <<"school", "kindergarten">>],
       [key |-> "middle_school",     tags |-> <<"school">>],
       [key |-> "high_school",       tags |-> <<"school">>],
       [key |-> "university",        tags |-> <<"university", "college">>] >>

\* AmenityAnalyzer.amenity_categories (in dict order)
AmenityCategoriesAll ==
    << [key |-> "schools",     tags |-> <<"school", "elementary_school", "secondary_school">>],
       [key |-> "gyms",        tags |-> <<"gym", "fitness_center", "health">>],
       [key |-> "transport",   tags |-> <<"subway_station", "bus_station", "train_station", "transit_station">>],
       [key |-> "parks",       tags |-> <<"park", "amusement_park">>],
       [key |-> "groceries",   tags |-> <<"grocery_or_supermarket", "supermarket", "food">>],
       [key |-> "restaurants", tags |-> <<"restaurant", "meal_takeaway", "cafe">>] >>

Min(a, b) == IF a <= b THEN a ELSE b

\* the catalog the run iterates: the first entries of the analyzer's dict
Catalog(v) ==
    IF v = "detailed"
    THEN SubSeq(AmenityTypesAll, 1, Min(MaxCategories, Len(AmenityTypesAll)))
    ELSE SubSeq(AmenityCategoriesAll, 1, Min(MaxRatedCategories, Len(AmenityCategoriesAll)))

CatalogKeys(v) == {Catalog(v)[k].key : k \in 1..Len(Catalog(v))}

(***************************************************************************)
(* External events of one row (pacing sleeps, provider calls), log records. *)
(***************************************************************************)
SleepEv(d) == [op |-> "sleep", d |-> d]
LookupEv(q) == [op |-> "geocode", q |-> q]
QueryEv(key, tags, lat, lon, radius) ==
    [op |-> "query", cat |-> key, tags |-> tags, lat |-> lat, lon |-> lon, radius |-> radius]
LogRec(level, at) == [level |-> level, at |-> at]

\* the time the sleeps of a sequence of events take, in tenths of a second
RECURSIVE Slept(_)
Slept(ev) ==
    IF ev = <<>> THEN 0
    ELSE (IF Head(ev).op = "sleep" THEN Head(ev).d ELSE 0) + Slept(Tail(ev))

IsLookup(e) == e.op = "geocode"
IsQuery(e) == e.op = "query"
Lookups(ev) == SelectSeq(ev, IsLookup)
Queries(ev) == SelectSeq(ev, IsQuery)

(***************************************************************************)
(* Provider answers.                                                       *)
(***************************************************************************)
\* a geocoding lookup: a location, no result, a timeout, or a provider error
GeoLocs ==
    { [kind |-> "loc", lat |-> 407370004, lon |-> -740270000],
      [kind |-> "loc", lat |-> 0,         lon |-> -740270000] }
GeoFailures == { [kind |-> "empty"], [kind |-> "timeout"], [kind |-> "error"] }
GeoResponses == GeoLocs \cup GeoFailures

(***************************************************************************)
(* DetailedAmenityAnalyzer.geocode_address                                 *)
(* r1, r2: the provider's answers to the first and to the fallback lookup. *)
(* Result: raised (an exception left the function), lat, lon, events.      *)
(***************************************************************************)
GeoReturn(lat, lon, ev, lg, ans) ==
    [raised |-> FALSE, ok |-> TRUE, lat |-> lat, lon |-> lon,
     events |-> ev, logs |-> lg, answers |-> ans]
GeoRaise(ev) ==
    [raised |-> TRUE, ok |-> FALSE, lat |-> None, lon |-> None,
     events |-> ev, logs |-> <<>>, answers |-> <<>>]
GeoNone(ev, lg, ans) ==
    [raised |-> FALSE, ok |-> FALSE, lat |-> None, lon |-> None,
     events |-> ev, logs |-> lg, answers |-> ans]

\* mutant of IsBlank: the test without strip(), `not address`
IsBlank_NoStrip(address) == ~Truthy(address)

\* `not address or address.strip() == ''`
IsBlank(address) ==
    IF ~Truthy(address) THEN TRUE
    ELSE address.py = "str" /\ Strip(address.chars) = <<>>

\* `location_search + ', NY'` (a TypeError when location_search is None)
CanConcat(v) == v.py = "str"
WithNY(v) == Str(v.chars \o NYSuffix)

\* line 80: the pacing sleep and the first lookup
FirstLookup(q) == <<SleepEv(10), LookupEv(q)>>

\* mutant of FallbackLookup: the fallback lookup is sent again
FallbackLookup_Retried(q) == <<LookupEv(q), LookupEv(q)>>

\* line 87: the fallback lookup
FallbackLookup(q) == <<LookupEv(q)>>

\* lines 86-89: the fallback, entered after an empty first result
Fallback(q1, location_search, r1, r2, ev1) ==
    IF q1 # location_search
    THEN IF ~CanConcat(location_search)
         THEN \* TypeError inside the try: caught, logged at debug level
              GeoReturn(None, None, ev1, <<LogRec("debug", "geocode_address")>>, <<r1>>)
         ELSE LET ev2 == ev1 \o FallbackLookup(WithNY(location_search))
              IN  CASE r2.kind = "loc" ->
                         GeoReturn(Num(r2.lat), Num(r2.lon), ev2, <<>>, <<r1, r2>>)
                    [] r2.kind = "empty" -> GeoReturn(None, None, ev2, <<>>, <<r1, r2>>)
                    [] OTHER ->
                         GeoReturn(None, None, ev2, <<LogRec("debug", "geocode_address")>>,
                                   <<r1, r2>>)
    ELSE GeoReturn(None, None, ev1, <<>>, <<r1>>)

\* whether the first lookup's failure is an exception (timeout, provider error),
\* which leaves the try block before the fallback
SkipsFallback(r1) == r1.kind \in {"timeout", "error"}

geocode_address(address, location_search, r1, r2) ==
    IF IsBlank(address) /\ ~CanConcat(location_search)
    THEN GeoRaise(<<>>)     \* line 77 is outside the try
    ELSE LET q1 == IF IsBlank(address) THEN WithNY(location_search) ELSE address
             ev1 == FirstLookup(q1)
         IN  CASE r1.kind = "loc" -> GeoReturn(Num(r1.lat), Num(r1.lon), ev1, <<>>, <<r1>>)
               [] SkipsFallback(r1) ->
                    GeoReturn(None, None, ev1, <<LogRec("debug", "geocode_address")>>, <<r1>>)
               [] OTHER -> Fallback(q1, location_search, r1, r2, ev1)

(***************************************************************************)
(* AmenityAnalyzer.extract_coordinates_from_address                        *)
(* ok: a (lat, lng) tuple was returned; ~ok: None was returned.            *)
(***************************************************************************)
MockLat == 407589000
MockLon == -740278000

extract_coordinates_from_address(key, address, r) ==
    IF ~key
    THEN GeoReturn(Num(MockLat), Num(MockLon), <<>>, <<>>, <<>>)
    ELSE LET ev == <<LookupEv(address)>>
         IN  CASE r.kind = "loc" -> GeoReturn(Num(r.lat), Num(r.lon), ev, <<>>, <<r>>)
               [] r.kind = "empty" ->
                    GeoNone(ev, <<LogRec("warning", "extract_coordinates_from_address")>>, <<r>>)
               [] OTHER ->
                    GeoNone(ev, <<LogRec("error", "extract_coordinates_from_address")>>, <<r>>)

(***************************************************************************)
(* Numbers.                                                                *)
(***************************************************************************)
Abs(n) == IF n < 0 THEN -n ELSE n

\* round(n / d) to the nearest integer, ties to even (Python's round)
RoundDiv(n, d) ==
    LET a == Abs(n)
        q == a \div d
        r == a % d
        m == IF 2 * r > d \/ (2 * r = d /\ q % 2 = 1) THEN q + 1 ELSE q
    IN  IF n < 0 THEN -m ELSE m

\* round(x, 6) of a coordinate held in units of 1e-7 degree
Round6(x) == RoundDiv(x, 10) * 10

(***************************************************************************)
(* DetailedAmenityAnalyzer.calculate_distance, in centimetres.             *)
(* Two cases are defined.                                                  *)
(* Both points on the grid of latitudes and longitudes -60, 0, 60 degrees: *)
(* the haversine formula as the code writes it.  There sin^2(delta/2) is a *)
(* number of quarters and cos(lat) a number of halves, so `a` is an exact  *)
(* number of sixteenths, and R * 2 * atan2(sqrt(a), sqrt(1 - a)) is        *)
(* tabulated to the centimetre.                                            *)
(* Otherwise, two points of one meridian (lon1 = lon2): the formula is     *)
(* R * |lat2 - lat1| in radians, 6371000 m * pi/180 = 111195 m per degree, *)
(* 1.11195 cm per 1e-7 degree.                                             *)
(***************************************************************************)
\* 60 degrees, in units of 1e-7 degree
Deg60 == 600000000

GridDegrees == {-Deg60, 0, Deg60}
OnGrid(lat, lon) == lat \in GridDegrees /\ lon \in GridDegrees

\* 4 * sin(delta/2) * sin(delta/2), delta a multiple of 60 degrees
SinHalfSq4(delta) == <<0, 1, 3, 4, 3, 1>>[((delta \div Deg60) % 6) + 1]

\* 2 * cos(lat), lat one of -60, 0, 60 degrees
Cos2(lat) == IF lat = 0 THEN 2 ELSE 1

\* 16 * a of lines 147-149
HaversineA16(lat1, lon1, lat2, lon2) ==
    LET delta_lat == lat2 - lat1
        delta_lon == lon2 - lon1
    IN  4 * SinHalfSq4(delta_lat) + Cos2(lat1) * Cos2(lat2) * SinHalfSq4(delta_lon)

\* R * 2 * atan2(sqrt(a), sqrt(1 - a)) in centimetres, for a = 0/16 .. 16/16
ArcLengthCm ==
    << 0, 321965181, 460453989, 570628040,
       667169560, 755855155, 839771749, 920907979,
       1000754340, 1080600701, 1161736930, 1245653525,
       1334339120, 1430880639, 1541054690, 1679543499,
       2001508680 >>

ArcLength_Swapped(a16) == ArcLengthCm[17 - a16]

\* lines 150-152
ArcLength(a16) == ArcLengthCm[a16 + 1]

\* lines 142-152 on one meridian
MeridianDistance(lat1, lat2) ==
    LET dl == Abs(lat2 - lat1) IN dl + RoundDiv(11195 * dl, 100000)

calculate_distance_OwnLatitude(lat1, lon1, lat2, lon2) ==
    CASE OnGrid(lat1, lon1) /\ OnGrid(lat2, lon2) ->
        ArcLength(4 * SinHalfSq4(lat2 - lat1) + Cos2(lat1) * Cos2(lat1) * SinHalfSq4(lon2 - lon1))
      [] lon1 = lon2 /\ ~(OnGrid(lat1, lon1) /\ OnGrid(lat2, lon2)) ->
        MeridianDistance(lat1, lat2)

calculate_distance(lat1, lon1, lat2, lon2) ==
    CASE OnGrid(lat1, lon1) /\ OnGrid(lat2, lon2) ->
        ArcLength(HaversineA16(lat1, lon1, lat2, lon2))
      [] lon1 = lon2 /\ ~(OnGrid(lat1, lon1) /\ OnGrid(lat2, lon2)) ->
        MeridianDistance(lat1, lat2)

(***************************************************************************)
(* DetailedAmenityAnalyzer.get_amenity_details                             *)
(***************************************************************************)
\* an element of the Overpass answer: a node carries lat/lon, a way does not
NodeAt(lat, lon) == [haslatlon |-> TRUE, lat |-> lat, lon |-> lon]
Way == [haslatlon |-> FALSE, lat |-> 0, lon |-> 0]

OverpassFailures == { [kind |-> "timeout"], [kind |-> "non200"], [kind |-> "malformed"] }

\* the answers the provider gives in the batch runs: a failure, no element, or
\* two nodes about 500 m and 300 m north of the centre (44966 and 26980 units)
OverpassResponses(lat, lon) ==
    OverpassFailures \cup
    { [kind |-> "ok", elements |-> <<>>],
      [kind |-> "ok", elements |-> <<NodeAt(lat + 44966, lon), NodeAt(lat + 26980, lon)>>] }

\* elements per answer in the runs that draw any answer
MaxElements == 2

\* any answer of up to MaxElements elements: ways, a node on the centre itself, and
\* nodes about 300 m and 500 m north of it
AnyOverpassResponses(lat, lon) ==
    OverpassFailures \cup
    { [kind |-> "ok", elements |-> es] :
        es \in UNION { [1..n -> {Way, NodeAt(lat, lon), NodeAt(lat + 26980, lon),
                                 NodeAt(lat + 44966, lon)}] : n \in 0..MaxElements } }

RECURSIVE Distances(_, _, _)
Distances(lat, lon, elements) ==
    IF elements = <<>> THEN <<>>
    ELSE LET e == Head(elements)
             rest == Distances(lat, lon, Tail(elements))
         IN  IF e.haslatlon
             THEN <<calculate_distance(lat, lon, e.lat, e.lon)>> \o rest
             ELSE rest

SeqMin(s) == CHOOSE m \in {s[k] : k \in 1..Len(s)} : \A k \in 1..Len(s) : m <= s[k]

DefaultRadius == 1000

\* lines 110-111: pacing sleep, then one POST for the whole category
QueryCall(lat, lon, amenity_type, osm_tags) ==
    <<SleepEv(5), QueryEv(amenity_type, osm_tags, lat, lon, DefaultRadius)>>

get_amenity_details(lat, lon, amenity_type, osm_tags, resp) ==
    LET ev == QueryCall(lat, lon, amenity_type, osm_tags)
    IN  CASE resp.kind = "ok" ->
               IF resp.elements = <<>>
               THEN [count |-> 0, closest |-> None, events |-> ev, logs |-> <<>>]
               ELSE LET distances == Distances(lat, lon, resp.elements)
                    IN  [count |-> Len(distances),
                         closest |-> IF distances # <<>> THEN Num(SeqMin(distances)) ELSE None,
                         events |-> ev, logs |-> <<>>]
          [] resp.kind = "non200" ->
               [count |-> 0, closest |-> None, events |-> ev, logs |-> <<>>]
          [] OTHER ->
               [count |-> 0, closest |-> None, events |-> ev,
                logs |-> <<LogRec("debug", "get_amenity_details")>>]

(***************************************************************************)
(* Rows and records.                                                       *)
(***************************************************************************)
Row(address, location_search) == [address |-> address, location_search |-> location_search]

AddrText == Str(<<"5", " ", "A", "v", "e">>)
HintText == Str(<<"S", "o", "H", "o">>)

\* rows of csv.DictReader: every value is a str, or None where the line is short
DetailedRows ==
    { Row(AddrText, HintText), Row(Str(<<>>), HintText), Row(Str(<<>>), None) }

\* rows of pandas.read_csv: an empty cell is NaN
RatedRows == { Row(AddrText, HintText), Row(NaN, HintText) }

\* row.get('address', '') of a file that has no address column
NoAddressColumnRow == Row(Str(<<>>), HintText)

SeqsUpTo(S, n) == UNION {[1..k -> S] : k \in 0..n}

NoKeys == [k \in {} |-> 0]

\* a record under construction or emitted; Absent marks a key the dict does not hold.
\* History fields, not keys of the dict: src (the 1-based index of the row the record
\* was built from), located (the geocoder returned a coordinate for the row),
\* coord (what the geocoder returned for the row: <<lat, lon>>),
\* calls (the number of proximity query calls sent to the provider for the row)
\* and points (per category, the elements the provider returned to the calls that
\* did not fail).
BlankRecord(src, prop) ==
    [src |-> src, located |-> FALSE, coord |-> <<None, None>>,
     calls |-> 0, points |-> NoKeys,
     prop |-> prop, analysis_date |-> Absent, analysis_radius |-> Absent,
     latitude |-> Absent, longitude |-> Absent,
     count |-> NoKeys, closest |-> NoKeys, total |-> Absent,
     avg_rating |-> NoKeys, score |-> NoKeys, overall |-> Absent, error |-> Absent]

NoRecord == BlankRecord(0, Row(None, None))
NoMeasure == [a |-> <<0, 0>>, b |-> <<0, 0>>, ab |-> None, ba |-> None, aa |-> None]
NoGeo == GeoNone(<<>>, <<>>, <<>>)

\* self.properties[:max_properties] has this many rows
SliceLen(n, m) == IF m >= 0 THEN Min(n, m) ELSE IF n + m > 0 THEN n + m ELSE 0

(***************************************************************************)
(* Initial states: the analyzer is constructed and the rows are loaded.    *)
(***************************************************************************)
Init ==
    /\ variant \in {"detailed", "rated"}
    /\ google_api_key \in (IF variant = "rated" THEN BOOLEAN ELSE {FALSE})
    /\ properties \in
         (IF variant = "detailed"
          THEN SeqsUpTo(DetailedRows, MaxListings)
          ELSE SeqsUpTo(RatedRows, MaxListings) \cup SeqsUpTo({NoAddressColumnRow}, MaxListings))
    /\ max_properties \in (IF variant = "detailed" THEN {1, 5} ELSE {0})
    /\ pc = "start"
    /\ idx = 0
    /\ cur = NoRecord
    /\ cat = 0
    /\ tag = 0
    /\ geo = NoGeo
    /\ category_amenities = <<>>
    /\ emitted = <<>>
    /\ events = <<>>
    /\ logs = <<>>
    /\ catalog = Catalog(variant)
    /\ now = 0
    /\ saved = <<>>
    /\ failed = {}
    /\ measured = NoMeasure

(***************************************************************************)
(* DetailedAmenityAnalyzer.analyze_properties                              *)
(***************************************************************************)
\* lines 156-163
D_Start ==
    /\ variant = "detailed" /\ pc = "start"
    /\ pc' = IF properties = <<>> THEN "done" ELSE "loop"
    /\ logs' = IF properties = <<>> THEN <<LogRec("error", "analyze_properties")>> ELSE <<>>
    /\ UNCHANGED <<variant, google_api_key, catalog, measured, failed, saved, now, properties, max_properties, idx, cur,
                   cat, tag, geo, category_amenities, emitted, events>>

\* lines 165-172: the next row of the slice is geocoded; an exception of
\* geocode_address leaves analyze_properties and is logged by main (lines 264-265)
D_Geocode ==
    /\ variant = "detailed" /\ pc = "loop"
    /\ idx < SliceLen(Len(properties), max_properties)
    /\ \E r1 \in GeoResponses, r2 \in GeoResponses :
         LET prop == properties[idx + 1]
             g == geocode_address(prop.address, prop.location_search, r1, r2)
         IN  /\ geo' = g
             /\ events' = events \o g.events
             /\ now' = now + Slept(g.events)
             /\ logs' = g.logs \o (IF g.raised THEN <<LogRec("error", "main")>> ELSE <<>>)
             /\ pc' = IF g.raised THEN "raised" ELSE "geocoded"
    /\ UNCHANGED <<variant, google_api_key, catalog, measured, failed, saved, properties, max_properties, idx, cur,
                   cat, tag, category_amenities, emitted>>

\* `if lat and lon` (line 178)
IsGeocoded(lat, lon) == Truthy(lat) /\ Truthy(lon)

\* the geocoder returned a coordinate pair, not (None, None)
ReturnedCoordinate(g) == g.lat # None /\ g.lon # None

\* mutant of EmptyAmenityData: the loop of lines 202-204 stops before the last category
EmptyAmenityData_DropsLast(rec, types) ==
    LET keys == {types[k].key : k \in 1..(Len(types) - 1)}
    IN  [rec EXCEPT !.latitude = Str(<<>>),
                    !.longitude = Str(<<>>),
                    !.count = [k \in keys |-> 0],
                    !.closest = [k \in keys |-> None],
                    !.total = Num(0)]

\* mutant of EmptyAmenityData: line 206 is missing, the total is never set
EmptyAmenityData_NoTotal(rec, types) ==
    LET keys == {types[k].key : k \in 1..Len(types)}
    IN  [rec EXCEPT !.latitude = Str(<<>>),
                    !.longitude = Str(<<>>),
                    !.count = [k \in keys |-> 0],
                    !.closest = [k \in keys |-> None]]

\* lines 199-206: the record of a row that could not be geocoded
EmptyAmenityData(rec, types) ==
    LET keys == {types[k].key : k \in 1..Len(types)}
    IN  [rec EXCEPT !.latitude = Str(<<>>),
                    !.longitude = Str(<<>>),
                    !.count = [k \in keys |-> 0],
                    !.closest = [k \in keys |-> None],
                    !.total = Num(0)]

\* mutant of StartTotal: line 184 is missing, the total of the row before is carried on
StartTotal_Carried == IF emitted = <<>> THEN Num(0) ELSE emitted[Len(emitted)].total

\* line 184: total_amenities = 0
StartTotal == Num(0)

\* lines 174-181 and 198-209
D_Branch ==
    /\ variant = "detailed" /\ pc = "geocoded"
    /\ LET prop == properties[idx + 1]
           rec == [BlankRecord(idx + 1, prop) EXCEPT !.analysis_date = Num(now \div 10),
                                                     !.analysis_radius = Num(1000),
                                                     !.located = ReturnedCoordinate(geo),
                                                     !.coord = <<geo.lat, geo.lon>>]
       IN  IF IsGeocoded(geo.lat, geo.lon)
           THEN /\ cur' = [rec EXCEPT !.latitude = Num(Round6(geo.lat.v)),
                                      !.longitude = Num(Round6(geo.lon.v)),
                                      !.total = StartTotal]
                /\ cat' = 1
                /\ pc' = "querying"
                /\ logs' = <<>>
                /\ UNCHANGED <<idx, emitted, events>>
           ELSE /\ emitted' = Append(emitted, EmptyAmenityData(rec, catalog))
                /\ events' = <<>>
                /\ logs' = <<LogRec("warning", "analyze_properties")>>
                /\ idx' = idx + 1
                /\ pc' = "loop"
                /\ UNCHANGED <<cur, cat>>
    /\ failed' = {}
    /\ UNCHANGED <<variant, google_api_key, catalog, measured, saved, now, properties, max_properties, tag, geo,
                   category_amenities>>

\* line 190: `round(closest_distance, 0) if closest_distance else None`, in metres
RoundedClosest(closest) == IF Truthy(closest) THEN Num(RoundDiv(closest.v, 100)) ELSE None

\* mutant of AddToTotal: a category adds 1 when anything was found
AddToTotal_OncePerCategory(total_amenities, count) ==
    total_amenities + (IF count > 0 THEN 1 ELSE 0)

\* line 191: total_amenities += count
AddToTotal(total_amenities, count) == total_amenities + count

\* mutant of ItemAt: the catalog is iterated from its last item
ItemAt_Reversed(types, i) == types[Len(types) + 1 - i]

\* line 186: the i-th item of `self.amenity_types.items()`, in the dict's order
ItemAt(types, i) == types[i]

\* lines 186-193: one category, the provider answering with one of `responses`
D_QueryFrom(responses) ==
    /\ variant = "detailed" /\ pc = "querying"
    /\ cat <= Len(catalog)
    /\ \E resp \in responses :
         LET c == ItemAt(catalog, cat)
             d == get_amenity_details(geo.lat.v, geo.lon.v, c.key, c.tags, resp)
         IN  /\ cur' = [cur EXCEPT !.count = (c.key :> d.count) @@ cur.count,
                                   !.closest = (c.key :> RoundedClosest(d.closest)) @@ cur.closest,
                                   !.total = Num(AddToTotal(cur.total.v, d.count)),
                                   !.calls = cur.calls + Len(Queries(d.events)),
                                   !.points = (c.key :> (IF resp \in OverpassFailures
                                                         THEN <<>> ELSE resp.elements))
                                              @@ cur.points]
             /\ events' = events \o d.events
             /\ now' = now + Slept(d.events)
             /\ failed' = IF resp \in OverpassFailures THEN failed \cup {c.key} ELSE failed
             /\ logs' = d.logs
    /\ cat' = cat + 1
    /\ UNCHANGED <<variant, google_api_key, catalog, measured, saved, properties, max_properties, pc, idx,
                   tag, geo, category_amenities, emitted>>

D_Query == D_QueryFrom(OverpassResponses(geo.lat.v, geo.lon.v))

\* the same step with the provider answering any bounded set of elements
D_QueryAny == D_QueryFrom(AnyOverpassResponses(geo.lat.v, geo.lon.v))

\* main, line 258: save_detailed_data writes the returned records
D_Save ==
    /\ variant = "detailed" /\ pc = "done"
    /\ saved' = emitted
    /\ pc' = "saved"
    /\ logs' = IF emitted = <<>> THEN <<LogRec("error", "save_detailed_data")>> ELSE <<>>
    /\ UNCHANGED <<variant, google_api_key, catalog, measured, failed, now, properties, max_properties, idx, cur,
                   cat, tag, geo, category_amenities, emitted, events>>

\* lines 195-209: the record is appended
D_Finish ==
    /\ variant = "detailed" /\ pc = "querying"
    /\ cat > Len(catalog)
    /\ emitted' = Append(emitted, cur)
    /\ cur' = NoRecord
    /\ cat' = 0
    /\ events' = <<>>
    /\ logs' = <<>>
    /\ idx' = idx + 1
    /\ pc' = "loop"
    /\ failed' = {}
    /\ UNCHANGED <<variant, google_api_key, catalog, measured, saved, now, properties, max_properties, tag, geo,
                   category_amenities>>

\* lines 211-212
D_Return ==
    /\ variant = "detailed" /\ pc = "loop"
    /\ idx >= SliceLen(Len(properties), max_properties)
    /\ pc' = "done"
    /\ logs' = <<>>
    /\ UNCHANGED <<variant, google_api_key, catalog, measured, failed, saved, now, properties, max_properties, idx, cur,
                   cat, tag, geo, category_amenities, emitted, events>>

(***************************************************************************)
(* AmenityAnalyzer.search_nearby_amenities                                 *)
(* Ratings are integers in tenths.                                         *)
(***************************************************************************)
Place(rating) == [rating |-> rating]

\* _generate_mock_amenities: mock_data.get(amenity_type, [])
MockAmenities(amenity_type) ==
    CASE amenity_type = "school" -> <<Place(Num(42)), Place(Num(45))>>
      [] amenity_type = "gym" -> <<Place(Num(40)), Place(Num(43))>>
      [] amenity_type = "subway_station" -> <<Place(Num(38)), Place(Num(39))>>
      [] amenity_type = "park" -> <<Place(Num(44)), Place(Num(41))>>
      [] amenity_type = "grocery_or_supermarket" -> <<Place(Num(40)), Place(Num(42))>>
      [] amenity_type = "restaurant" -> <<Place(Num(43)), Place(Num(41))>>
      [] OTHER -> <<>>

\* the answers of the Places provider in the batch runs
PlacesResponses ==
    { [kind |-> "timeout"], [kind |-> "error"], [kind |-> "notok"],
      [kind |-> "ok", results |-> <<>>],
      [kind |-> "ok", results |-> <<Place(Num(40)), Place(Num(44))>>] }

\* the answers that make requests.get, raise_for_status or response.json() raise
PlacesFailures == { [kind |-> "timeout"], [kind |-> "error"] }

\* places per answer in the runs that draw any answer
MaxPlaces == 2

\* any answer of up to MaxPlaces places, rated 4.0 or 4.4 or carrying no rating
AnyPlacesResponses ==
    PlacesFailures \cup
    { [kind |-> "ok", results |-> ps] :
        ps \in UNION { [1..n -> {Place(Absent), Place(Num(40)), Place(Num(44))}] :
                         n \in 0..MaxPlaces } }

search_nearby_amenities(key, lat, lng, amenity_type, resp) ==
    IF ~key
    THEN [results |-> MockAmenities(amenity_type), events |-> <<>>, logs |-> <<>>]
    ELSE LET ev == <<QueryEv(amenity_type, <<amenity_type>>, lat, lng, DefaultRadius)>>
         IN  CASE resp.kind = "ok" -> [results |-> resp.results, events |-> ev, logs |-> <<>>]
               [] resp.kind = "notok" ->
                    [results |-> <<>>, events |-> ev,
                     logs |-> <<LogRec("warning", "search_nearby_amenities")>>]
               [] OTHER ->
                    [results |-> <<>>, events |-> ev,
                     logs |-> <<LogRec("error", "search_nearby_amenities")>>]

(***************************************************************************)
(* AmenityAnalyzer.analyze_property_amenities / analyze_csv_properties     *)
(* avg_rating, score and overall are integers in hundredths.               *)
(***************************************************************************)
ErrorText == Str(<<"C", "o", "u", "l", "d", " ", "n", "o", "t", " ", "g", "e", "o", "c", "o", "d", "e", " ", "a", "d", "d", "r", "e", "s", "s">>)

\* a.get('rating', 0), in tenths
RatingOf(a) == IF a.rating = Absent THEN 0 ELSE a.rating.v

RECURSIVE SumRatings(_)
SumRatings(as) == IF as = <<>> THEN 0 ELSE RatingOf(Head(as)) + SumRatings(Tail(as))

\* Line 172 is evaluated in binary floating point, where 0.3 and 0.7 are not exact:
\* when count * 0.3 + avg_rating * 0.7 is a decimal tie (x.xx5) the float lies on one
\* side of it and round(, 2) follows the float.  With n points whose ratings sum to
\* `sum` tenths the ties of this model's inputs are those of the mock data: Python
\* gives 3.64 for 3.645 (school), 3.29 for 3.295 (subway_station), 3.57 for 3.575
\* (park), and 3.51 for 3.505 (gym).
FloatTieUp == { <<2, 83>> }

\* round(amenity_count * 0.3 + avg_rating * 0.7, 2), in hundredths
RoundScore(n, sum) ==
    LET num == 30 * n * n + 7 * sum
    IN  IF 2 * (num % n) = n
        THEN (num \div n) + (IF <<n, sum>> \in FloatTieUp THEN 1 ELSE 0)
        ELSE RoundDiv(num, n)

\* mutant of CategoryScore: the average is taken over the places that carry a rating
CategoryScore_SkipsUnrated(as) ==
    LET rated == SelectSeq(as, LAMBDA a : a.rating # Absent)
    IN  IF rated # <<>>
        THEN [count |-> Len(as),
              avg_rating |-> RoundDiv(10 * SumRatings(rated), Len(rated)),
              score |-> RoundDiv(30 * Len(as) * Len(rated) + 7 * SumRatings(rated), Len(rated))]
        ELSE [count |-> Len(as), avg_rating |-> 0, score |-> 30 * Len(as)]

\* lines 166-176
CategoryScore(as) ==
    IF as # <<>>
    THEN LET n == Len(as)
             sum == SumRatings(as)
         IN  [count |-> n,
              avg_rating |-> RoundDiv(10 * sum, n),
              score |-> RoundScore(n, sum)]
    ELSE [count |-> 0, avg_rating |-> 0, score |-> 0]

RECURSIVE SumScores(_, _)
SumScores(score, types) ==
    IF types = <<>> THEN 0
    ELSE score[Head(types).key] + SumScores(score, Tail(types))

\* mutant of OverallScore: categories that scored 0 are left out of the mean
OverallScore_SkipsZero(score, types) ==
    LET scored == SelectSeq(types, LAMBDA c : score[c.key] # 0)
    IN  IF scored = <<>> THEN 0 ELSE RoundDiv(SumScores(score, scored), Len(scored))

\* lines 179-180
OverallScore(score, types) == RoundDiv(SumScores(score, types), Len(types))

\* lines 189-195
R_Start ==
    /\ variant = "rated" /\ pc = "start"
    /\ pc' = "loop"
    /\ logs' = <<>>
    /\ UNCHANGED <<variant, google_api_key, catalog, measured, failed, saved, now, properties, max_properties, idx, cur,
                   cat, tag, geo, category_amenities, emitted, events>>

\* lines 197-200: `if not address: continue`
R_Skip ==
    /\ variant = "rated" /\ pc = "loop"
    /\ idx < Len(properties)
    /\ ~Truthy(properties[idx + 1].address)
    /\ idx' = idx + 1
    /\ logs' = <<>>
    /\ UNCHANGED <<variant, google_api_key, catalog, measured, failed, saved, now, properties, max_properties, pc, cur,
                   cat, tag, geo, category_amenities, emitted, events>>

\* lines 202-204 and 143-146
R_Geocode ==
    /\ variant = "rated" /\ pc = "loop"
    /\ idx < Len(properties)
    /\ Truthy(properties[idx + 1].address)
    /\ \E r \in GeoResponses :
         LET g == extract_coordinates_from_address(google_api_key, properties[idx + 1].address, r)
         IN  /\ geo' = g
             /\ events' = events \o g.events
             /\ now' = now + Slept(g.events)
             /\ logs' = g.logs
    /\ pc' = "geocoded"
    /\ UNCHANGED <<variant, google_api_key, catalog, measured, failed, saved, properties, max_properties, idx, cur,
                   cat, tag, category_amenities, emitted>>

\* mutant of ErrorRecord: the error dict also carries zero counts for the catalog
ErrorRecord_WithCounts(rec) ==
    [rec EXCEPT !.error = ErrorText, !.count = [k \in {catalog[k].key : k \in 1..Len(catalog)} |-> 0]]

\* line 148
ErrorRecord(rec) == [rec EXCEPT !.error = ErrorText]

\* line 208: the sleep that follows the append
AfterAppend == <<SleepEv(10)>>

\* lines 147-151, and 205-208 for the error dict
R_Branch ==
    /\ variant = "rated" /\ pc = "geocoded"
    /\ LET rec == [BlankRecord(idx + 1, properties[idx + 1]) EXCEPT
                      !.located = geo.ok, !.coord = <<geo.lat, geo.lon>>]
       IN  IF ~geo.ok
           THEN /\ emitted' = Append(emitted, ErrorRecord(rec))
                /\ events' = AfterAppend
                /\ now' = now + Slept(AfterAppend)
                /\ idx' = idx + 1
                /\ pc' = "loop"
                /\ UNCHANGED <<cur, cat, tag, category_amenities>>
           ELSE /\ cur' = rec
                /\ cat' = 1
                /\ tag' = 1
                /\ category_amenities' = <<>>
                /\ pc' = "querying"
                /\ UNCHANGED <<idx, emitted, events, now>>
    /\ logs' = <<>>
    /\ failed' = {}
    /\ UNCHANGED <<variant, google_api_key, catalog, measured, saved, properties, max_properties, geo>>

\* lines 162-163: the sleep after a search, only with an API key
PaceSearch(key) == IF key THEN <<SleepEv(1)>> ELSE <<>>

\* lines 157-163: one search per type of the category, the provider answering with
\* one of `responses`
R_SearchFrom(responses) ==
    /\ variant = "rated" /\ pc = "querying"
    /\ cat <= Len(catalog)
    /\ tag <= Len(catalog[cat].tags)
    /\ \E resp \in responses :
         LET amenity_type == catalog[cat].tags[tag]
             r == search_nearby_amenities(google_api_key, geo.lat.v, geo.lon.v, amenity_type, resp)
         IN  /\ category_amenities' = category_amenities \o r.results
             /\ cur' = [cur EXCEPT !.calls = cur.calls + Len(Queries(r.events))]
             /\ failed' = IF google_api_key /\ resp \in PlacesFailures
                          THEN failed \cup {catalog[cat].key} ELSE failed
             /\ events' = events \o r.events \o PaceSearch(google_api_key)
             /\ now' = now + Slept(PaceSearch(google_api_key))
             /\ logs' = r.logs
    /\ tag' = tag + 1
    /\ UNCHANGED <<variant, google_api_key, catalog, measured, saved, properties, max_properties, pc, idx,
                   cat, geo, emitted>>

R_Search == R_SearchFrom(PlacesResponses)

\* the same step with the provider answering any bounded set of places
R_SearchAny == R_SearchFrom(AnyPlacesResponses)

\* lines 165-176: the category's count, average rating and score
R_Score ==
    /\ variant = "rated" /\ pc = "querying"
    /\ cat <= Len(catalog)
    /\ tag > Len(catalog[cat].tags)
    /\ LET key == catalog[cat].key
           s == CategoryScore(category_amenities)
       IN  cur' = [cur EXCEPT !.count = (key :> s.count) @@ cur.count,
                              !.avg_rating = (key :> s.avg_rating) @@ cur.avg_rating,
                              !.score = (key :> s.score) @@ cur.score,
                              !.points = (key :> category_amenities) @@ cur.points]
    /\ cat' = cat + 1
    /\ tag' = 1
    /\ category_amenities' = <<>>
    /\ logs' = <<>>
    /\ UNCHANGED <<variant, google_api_key, catalog, measured, failed, saved, now, properties, max_properties, pc, idx,
                   geo, emitted, events>>

\* lines 178-183 and 205-208
R_Finish ==
    /\ variant = "rated" /\ pc = "querying"
    /\ cat > Len(catalog)
    /\ IF catalog = <<>>
       THEN \* line 180 divides by len(category_scores) = 0: ZeroDivisionError, caught
            \* by analyze_csv_properties (lines 227-229), which returns None
            /\ pc' = "raised"
            /\ logs' = <<LogRec("error", "analyze_csv_properties")>>
            /\ UNCHANGED <<emitted, cur, cat, tag, events, now, idx>>
       ELSE /\ emitted' = Append(emitted,
                            [cur EXCEPT !.overall = Num(OverallScore(cur.score, catalog))])
            /\ cur' = NoRecord
            /\ cat' = 0
            /\ tag' = 0
            /\ events' = AfterAppend
            /\ now' = now + Slept(AfterAppend)
            /\ logs' = <<>>
            /\ idx' = idx + 1
            /\ pc' = "loop"
    /\ failed' = {}
    /\ UNCHANGED <<variant, google_api_key, catalog, measured, saved, properties, max_properties, geo,
                   category_amenities>>

\* lines 210-225
R_Return ==
    /\ variant = "rated" /\ pc = "loop"
    /\ idx >= Len(properties)
    /\ pc' = "done"
    /\ saved' = emitted
    /\ logs' = <<>>
    /\ UNCHANGED <<variant, google_api_key, catalog, measured, failed, now, properties, max_properties, idx, cur,
                   cat, tag, geo, category_amenities, emitted, events>>

Next ==
    \/ D_Start \/ D_Geocode \/ D_Branch \/ D_Query \/ D_Finish \/ D_Return \/ D_Save
    \/ R_Start \/ R_Skip \/ R_Geocode \/ R_Branch \/ R_Search \/ R_Score \/ R_Finish \/ R_Return

Spec == Init /\ [][Next]_vars

\* the batches of the detailed analyzer alone
InitDetailed == Init /\ variant = "detailed"

NextDetailed ==
    D_Start \/ D_Geocode \/ D_Branch \/ D_Query \/ D_Finish \/ D_Return \/ D_Save

SpecDetailed == InitDetailed /\ [][NextDetailed]_vars

\* The run is interrupted (KeyboardInterrupt) while the batch loop is at work.
\* `except Exception` (main, line 264; analyze_csv_properties, line 227) does not catch
\* it and no finally clause writes the records: the process exits.
Interrupt ==
    /\ pc \in {"loop", "geocoded", "querying"}
    /\ pc' = "interrupted"
    /\ logs' = <<>>
    /\ UNCHANGED <<variant, google_api_key, catalog, measured, failed, saved, now, properties, max_properties,
                   idx, cur, cat, tag, geo, category_amenities, emitted, events>>

NextInterrupt == Next \/ Interrupt

SpecInterrupt == Init /\ [][NextInterrupt]_vars

\* the batch is one sequential thread: a call that returns lets the next step run
FairSpec == Spec /\ WF_vars(Next)

(***************************************************************************)
(* The geocoding step alone, on one row drawn from every shape of address  *)
(* and location hint: a plain text, the hint's own text, whitespace, '',   *)
(* and a missing value (None from csv.DictReader, NaN from pandas).        *)
(***************************************************************************)
Blanks == Str(<<" ", " ">>)

DetailedGeoRows ==
    { Row(a, h) : a \in {AddrText, HintText, Blanks, Str(<<>>), None},
                  h \in {HintText, Str(<<>>), None} }

RatedGeoRows ==
    { Row(a, HintText) : a \in {AddrText, Blanks, NaN} } \cup {NoAddressColumnRow}

InitGeo ==
    /\ variant \in {"detailed", "rated"}
    /\ google_api_key \in (IF variant = "rated" THEN BOOLEAN ELSE {FALSE})
    /\ properties \in {<<r>> : r \in (IF variant = "detailed" THEN DetailedGeoRows ELSE RatedGeoRows)}
    /\ max_properties = (IF variant = "detailed" THEN 5 ELSE 0)
    /\ pc = "start"
    /\ idx = 0
    /\ cur = NoRecord
    /\ cat = 0
    /\ tag = 0
    /\ geo = NoGeo
    /\ category_amenities = <<>>
    /\ emitted = <<>>
    /\ events = <<>>
    /\ logs = <<>>
    /\ catalog = Catalog(variant)
    /\ now = 0
    /\ saved = <<>>
    /\ failed = {}
    /\ measured = NoMeasure

NextGeo == D_Start \/ D_Geocode \/ R_Start \/ R_Skip \/ R_Geocode

SpecGeo == InitGeo /\ [][NextGeo]_vars

(***************************************************************************)
(* The detailed analyzer on one row, the query provider answering any      *)
(* bounded sequence of elements.                                           *)
(***************************************************************************)
InitQuery ==
    /\ variant = "detailed"
    /\ google_api_key = FALSE
    /\ properties = <<Row(AddrText, HintText)>>
    /\ max_properties = 5
    /\ pc = "start"
    /\ idx = 0
    /\ cur = NoRecord
    /\ cat = 0
    /\ tag = 0
    /\ geo = NoGeo
    /\ category_amenities = <<>>
    /\ emitted = <<>>
    /\ events = <<>>
    /\ logs = <<>>
    /\ catalog = Catalog(variant)
    /\ now = 0
    /\ saved = <<>>
    /\ failed = {}
    /\ measured = NoMeasure

NextQuery ==
    D_Start \/ D_Geocode \/ D_Branch \/ D_QueryAny \/ D_Finish \/ D_Return \/ D_Save

SpecQuery == InitQuery /\ [][NextQuery]_vars

\* the batch loop has not started
AtStart ==
    /\ pc = "start"
    /\ idx = 0
    /\ cur = NoRecord
    /\ cat = 0
    /\ tag = 0
    /\ geo = NoGeo
    /\ category_amenities = <<>>
    /\ emitted = <<>>
    /\ events = <<>>
    /\ logs = <<>>
    /\ now = 0
    /\ saved = <<>>
    /\ failed = {}
    /\ measured = NoMeasure

(***************************************************************************)
(* The dicts the analyzers hand out, as functions from keys to values.  A   *)
(* key is a tuple: <<"latitude">>, <<"gym", "count">> for 'gym_count'.      *)
(***************************************************************************)
\* a loaded row as a dict
PropDict(prop) == [f \in {<<n>> : n \in DOMAIN prop} |-> prop[f[1]]]

\* the keys a record holds of one kind, e.g. '<category>_count'
Suffixed(values, suffix) ==
    [f \in {<<k, suffix>> : k \in DOMAIN values} |-> values[f[1]]]

\* the keys of a record that are set (Absent marks a key the dict does not hold)
SetKeys(rec, names) ==
    [f \in {<<n>> : n \in {m \in names : rec[m] # Absent}} |-> rec[f[1]]]

\* detailed_amenity_analyzer.py, lines 174-206: enhanced_prop = prop.copy(), then the
\* assignments enhanced_prop[key] = value, which replace the value of a key the row
\* already holds
EnhancedProp(rec) ==
    SetKeys(rec, {"analysis_date", "analysis_radius", "latitude", "longitude"})
    @@ Suffixed(rec.count, "count")
    @@ Suffixed(rec.closest, "closest_distance")
    @@ [f \in {<<"total_amenities_count">>} |-> rec.total]
    @@ PropDict(rec.prop)

\* amenity_analyzer.py, lines 148 and 170-183: the dict analyze_property_amenities returns
AmenityScores(rec) ==
    Suffixed(rec.count, "count")
    @@ Suffixed(rec.avg_rating, "avg_rating")
    @@ Suffixed(rec.score, "score")
    @@ (IF rec.overall = Absent THEN <<>>
        ELSE [f \in {<<"overall_amenity_score">>} |-> rec.overall])
    @@ SetKeys(rec, {"error"})

\* amenity_analyzer.py, lines 211-214: row i of pd.concat([df, amenities_df], axis=1):
\* the columns of row i of the file, then those of the i-th dict of amenity_data
\* (a lookup by name finds the file's column first)
ResultRow(i) ==
    PropDict(properties[i]) @@ (IF i <= Len(emitted) THEN AmenityScores(emitted[i]) ELSE <<>>)

(***************************************************************************)
(* Both analyzers on one row of a listing file that has more columns than   *)
(* the two the analysis reads: a name, or the latitude that                 *)
(* trulia_enhanced_scraper.save_to_csv writes.                              *)
(***************************************************************************)
NameText == Str(<<"L", "o", "f", "t">>)
LatitudeText == Str(<<"4", "0", ".", "7">>)

WiderRows ==
    { [address |-> AddrText, location_search |-> HintText, name |-> NameText],
      [address |-> AddrText, location_search |-> HintText, latitude |-> LatitudeText] }

InitFrame ==
    /\ variant \in {"detailed", "rated"}
    /\ google_api_key \in (IF variant = "rated" THEN BOOLEAN ELSE {FALSE})
    /\ properties \in {<<r>> : r \in WiderRows}
    /\ max_properties = (IF variant = "detailed" THEN 5 ELSE 0)
    /\ catalog = Catalog(variant)
    /\ AtStart

NextFrame ==
    \/ D_Start \/ D_Geocode \/ D_Branch \/ D_Query \/ D_Finish \/ D_Return \/ D_Save
    \/ R_Start \/ R_Geocode \/ R_Branch \/ R_Search \/ R_Score \/ R_Finish \/ R_Return

SpecFrame == InitFrame /\ [][NextFrame]_vars

(***************************************************************************)
(* calculate_distance applied to two points, in both orders, and to the    *)
(* first point and itself.  The points are those of the grid and three     *)
(* points of one meridian 300 m and 500 m apart.                           *)
(***************************************************************************)
MeasuredPoints ==
    (GridDegrees \X GridDegrees) \cup {<<MockLat + d, MockLon>> : d \in {0, 26980, 44966}}

\* the pairs for which the model defines the distance
Measurable(a, b) == OnGrid(a[1], a[2]) = OnGrid(b[1], b[2])

InitDistance ==
    /\ variant = "detailed"
    /\ google_api_key = FALSE
    /\ properties = <<>>
    /\ max_properties = 5
    /\ catalog = Catalog(variant)
    /\ pc = "measure"
    /\ idx = 0
    /\ cur = NoRecord
    /\ cat = 0
    /\ tag = 0
    /\ geo = NoGeo
    /\ category_amenities = <<>>
    /\ emitted = <<>>
    /\ events = <<>>
    /\ logs = <<>>
    /\ now = 0
    /\ saved = <<>>
    /\ failed = {}
    /\ \E a \in MeasuredPoints, b \in MeasuredPoints :
           /\ Measurable(a, b)
           /\ measured = [NoMeasure EXCEPT !.a = a, !.b = b]

Measure ==
    /\ pc = "measure"
    /\ pc' = "measured"
    /\ measured' =
          [measured EXCEPT
             !.ab = Num(calculate_distance(measured.a[1], measured.a[2],
                                           measured.b[1], measured.b[2])),
             !.ba = Num(calculate_distance(measured.b[1], measured.b[2],
                                           measured.a[1], measured.a[2])),
             !.aa = Num(calculate_distance(measured.a[1], measured.a[2],
                                           measured.a[1], measured.a[2]))]
    /\ UNCHANGED <<variant, google_api_key, catalog, saved, failed, now, properties,
                   max_properties, idx, cur, cat, tag, geo, category_amenities,
                   emitted, events, logs>>

NextDistance == Measure

SpecDistance == InitDistance /\ [][NextDistance]_vars

(***************************************************************************)
(* The rated analyzer on one row and one category of two search types      *)
(* ('parks'), the Places provider answering any bounded sequence of places. *)
(***************************************************************************)
InitScore ==
    /\ variant = "rated"
    /\ google_api_key \in BOOLEAN
    /\ properties = <<Row(AddrText, HintText)>>
    /\ max_properties = 0
    /\ catalog = SubSeq(AmenityCategoriesAll, 4, 4)
    /\ AtStart

NextScore ==
    R_Start \/ R_Geocode \/ R_Branch \/ R_SearchAny \/ R_Score \/ R_Finish \/ R_Return

SpecScore == InitScore /\ [][NextScore]_vars

(***************************************************************************)
(* The rated analyzer on one row, with the first one to MaxScoredCategories *)
(* categories of its catalog.                                              *)
(***************************************************************************)
MaxScoredCategories == 2

InitOverall ==
    /\ variant = "rated"
    /\ google_api_key \in BOOLEAN
    /\ properties = <<Row(AddrText, HintText)>>
    /\ max_properties = 0
    /\ catalog \in { SubSeq(AmenityCategoriesAll, 1, n) : n \in 1..MaxScoredCategories }
    /\ AtStart

NextOverall ==
    R_Start \/ R_Geocode \/ R_Branch \/ R_Search \/ R_Score \/ R_Finish \/ R_Return

SpecOverall == InitOverall /\ [][NextOverall]_vars

(***************************************************************************)
(* The same runs with the analyzer's amenity_categories set to any prefix  *)
(* of the catalog, the empty one included: __init__ (lines 19-40) checks   *)
(* nothing, and no other code looks at the catalog before the loop.        *)
(***************************************************************************)
InitCatalog ==
    /\ variant = "rated"
    /\ google_api_key \in BOOLEAN
    /\ properties = <<Row(AddrText, HintText)>>
    /\ max_properties = 0
    /\ catalog \in { SubSeq(AmenityCategoriesAll, 1, n) : n \in 0..MaxScoredCategories }
    /\ AtStart

SpecCatalog == InitCatalog /\ [][NextOverall]_vars

(***************************************************************************)
(* Properties.                                                             *)
(***************************************************************************)
Emitted == {emitted[i] : i \in 1..Len(emitted)}

\* the row being geocoded, or just geocoded, in the geocoding runs
TheRow == properties[1]

\* the category keys a record holds
RecordKeys(rec) ==
    DOMAIN rec.count \cup DOMAIN rec.closest \cup DOMAIN rec.avg_rating \cup DOMAIN rec.score

\* the record holds an entry of each kind of its policy for exactly the catalog's keys
HasExactlyCatalogKeys(rec) ==
    /\ RecordKeys(rec) = CatalogKeys(variant)
    /\ DOMAIN rec.count = CatalogKeys(variant)
    /\ variant = "detailed" => DOMAIN rec.closest = CatalogKeys(variant)
    /\ variant = "rated" =>
         /\ DOMAIN rec.avg_rating = CatalogKeys(variant)
         /\ DOMAIN rec.score = CatalogKeys(variant)

\* every category of the catalog is present with its zero/absent default
AllDefault(rec) ==
    \A k \in CatalogKeys(variant) :
        /\ k \in DOMAIN rec.count /\ rec.count[k] = 0
        /\ variant = "detailed" => (k \in DOMAIN rec.closest /\ rec.closest[k] = None)
        /\ variant = "rated" =>
             /\ k \in DOMAIN rec.avg_rating /\ rec.avg_rating[k] = 0
             /\ k \in DOMAIN rec.score /\ rec.score[k] = 0

\* a str that is empty or holds only whitespace
EmptyOrWhitespace(a) == a.py = "str" /\ Strip(a.chars) = <<>>

\* C1: when the batch has ended, one record was emitted per loaded row, and the
\* i-th record was built from the i-th row.
C1_OneRecordPerListing ==
    pc \in {"done", "raised"} =>
        /\ Len(emitted) = Len(properties)
        /\ \A i \in 1..Len(emitted) : emitted[i].src = i

C3_DegradedProfile ==
    variant = "detailed" =>
        \A r \in Emitted :
            ~r.located =>
                /\ r.latitude = Str(<<>>)
                /\ r.longitude = Str(<<>>)
                /\ \A k \in CatalogKeys(variant) :
                       /\ k \in DOMAIN r.count /\ r.count[k] = 0
                       /\ k \in DOMAIN r.closest /\ r.closest[k] = None
                /\ r.total = Num(0)

\* the address lookup and the fallback lookup both failed, and the row's record is out
C3_Witness ==
    /\ variant = "detailed" /\ pc = "loop" /\ idx >= 1
    /\ Len(geo.answers) = 2 /\ geo.lat = None /\ geo.lon = None
    /\ Len(emitted) = idx /\ ~emitted[idx].located
    /\ emitted[idx].total = Num(0)

C5_ResolveNeverRaises == ~geo.raised /\ pc # "raised"

\* C6: in the detailed geocoder, whenever the first lookup fails (no result, timeout or
\* provider error) and the row's address differs from its location hint, a second
\* lookup is sent whose query text is the hint (with or without the ', NY' suffix).
C6_FallbackAfterAnyFailure ==
    ( /\ variant = "detailed" /\ pc = "geocoded"
      /\ geo.answers[1].kind # "loc"
      /\ TheRow.address # TheRow.location_search
      /\ CanConcat(TheRow.location_search) )
    => /\ Len(Lookups(geo.events)) = 2
       /\ Lookups(geo.events)[2].q \in
            {TheRow.location_search, Str(TheRow.location_search.chars \o NYSuffix)}

\* C7: in the detailed geocoder, when the row's address equals its location hint
\* (both empty included), exactly one lookup is sent.
C7_NoRetryWhenEqual ==
    (variant = "detailed" /\ pc = "geocoded" /\ TheRow.address = TheRow.location_search)
    => Len(Lookups(geo.events)) = 1

C9_LookupPrecededByDelay ==
    \A k \in 1..Len(events) :
        IsLookup(events[k]) =>
            /\ k > 1
            /\ events[k - 1].op = "sleep"
            /\ events[k - 1].d >= 10

\* C10: for every row for which the geocoder returned a coordinate (and a live provider
\* is queried), the number of proximity query calls equals the catalog size.
C10_OneQueryPerCategory ==
    \A r \in Emitted :
        (r.located /\ (variant = "rated" => google_api_key))
        => r.calls = Len(Catalog(variant))

\* the result a record holds for category k
CategoryResult(r, k) ==
    [count |-> r.count[k],
     closest |-> IF k \in DOMAIN r.closest THEN r.closest[k] ELSE Absent,
     avg_rating |-> IF k \in DOMAIN r.avg_rating THEN r.avg_rating[k] ELSE Absent,
     score |-> IF k \in DOMAIN r.score THEN r.score[k] ELSE Absent]

\* C11: when a query call of a category failed, the category's result is count 0 with
\* no nearest distance, every category of the catalog still gets its result, and a
\* category's result is the one it has in any other record built for the same
\* coordinate from the same returned points, whatever failed for other categories.
C11_QueryFailureIsolated ==
    /\ \A k \in failed \cap DOMAIN cur.count :
           /\ cur.count[k] = 0
           /\ variant = "detailed" => cur.closest[k] = None
    /\ (pc = "querying" /\ cat > Len(catalog)) => DOMAIN cur.count = CatalogKeys(variant)
    /\ \A r1 \in Emitted \cup {cur}, r2 \in Emitted :
           \A k \in DOMAIN r1.points \cap DOMAIN r2.points :
               (r1.coord = r2.coord /\ r1.points[k] = r2.points[k])
               => CategoryResult(r1, k) = CategoryResult(r2, k)

\* C12: whatever the geocoder and the query provider answer, the batch eventually
\* completes with a record emitted for every loaded row.
C12_BatchEventuallyCompletes ==
    <>( /\ pc \in {"done", "saved"}
        /\ \A i \in 1..Len(properties) : \E r \in Emitted : r.src = i )

\* C13: when the run was interrupted, every record emitted so far has been written to
\* the output file, and the file never holds anything but emitted records.
C13_EmittedFlushedOnInterrupt ==
    /\ pc = "interrupted" => saved = emitted
    /\ Len(saved) <= Len(emitted)
    /\ \A i \in 1..Len(saved) : saved[i] = emitted[i]

\* C14: in the detailed analyzer, the count of a category equals the number of
\* elements the provider returned to the category's query, elements that carry no
\* lat/lon of their own included.
C14_CountIsNumberOfPoints ==
    \A r \in Emitted :
        \A k \in DOMAIN r.points : r.count[k] = Len(r.points[k])

\* the distances, rounded to the metre, from the record's query centre to the
\* elements of `points` that carry a coordinate
RoundedDistances(geocoded, points) ==
    { RoundDiv(calculate_distance(geocoded.lat.v, geocoded.lon.v, points[i].lat, points[i].lon),
               100) : i \in {j \in 1..Len(points) : points[j].haslatlon} }

\* C15: in the detailed analyzer, for every answer whose points all carry a coordinate,
\* the nearest distance of the category is absent exactly when the provider returned
\* no point, a positive count comes with a nearest distance (also when the nearest
\* point lies on the listing itself), and the nearest distance is the least of the
\* distances to the returned points; two points at 300 m and 500 m give count 2 and
\* nearest distance 300.
C15_NearestIsMinimum ==
    ( /\ variant = "detailed" /\ pc = "querying" /\ cat > 1
      /\ \A i \in 1..Len(cur.points[catalog[cat - 1].key]) :
             cur.points[catalog[cat - 1].key][i].haslatlon ) =>
        LET k == catalog[cat - 1].key
            ds == RoundedDistances(geo, cur.points[k])
        IN  /\ cur.count[k] > 0 => cur.closest[k] # None
            /\ cur.closest[k] = None <=> cur.points[k] = <<>>
            /\ cur.closest[k] # None =>
                   /\ cur.closest[k].v \in ds
                   /\ \A x \in ds : cur.closest[k].v <= x
            /\ ds = {300, 500} => (cur.count[k] = 2 /\ cur.closest[k] = Num(300))

\* the sum of the ratings of a sequence of places in tenths, a missing rating as 0
RECURSIVE RatingSum(_)
RatingSum(ps) ==
    IF ps = <<>> THEN 0
    ELSE (IF Head(ps).rating = Absent THEN 0 ELSE Head(ps).rating.v) + RatingSum(Tail(ps))

\* x (in hundredths) is num / den rounded to two decimals
IsRounded(x, num, den) == 2 * Abs(den * x - num) <= den

\* C16 as stated: in the rated analyzer, for every point set of a category the count is
\* the number of points, the average rating is the mean of the ratings (a missing
\* rating counting as 0; 0 for the empty set) and the score is
\* round(count * 0.3 + mean * 0.7, 2); ratings 4.0 and 4.4 give 4.2 and 3.54.
C16_ScoreFromMean ==
    \A r \in Emitted : \A k \in DOMAIN r.points :
        LET ps == r.points[k]
            n == Len(ps)
        IN  /\ r.count[k] = n
            /\ n * r.avg_rating[k] = 10 * RatingSum(ps)
            /\ n = 0 => r.score[k] = 0
            /\ n > 0 => IsRounded(r.score[k], 30 * n * n + 7 * RatingSum(ps), n)
            /\ ps = <<Place(Num(40)), Place(Num(44))>> =>
                   (r.avg_rating[k] = 420 /\ r.score[k] = 354)

\* C16 as amended: the reported average rating is that mean rounded to two decimals;
\* the score is computed from the unrounded mean.
C16_ScoreFromRoundedMean ==
    \A r \in Emitted : \A k \in DOMAIN r.points :
        LET ps == r.points[k]
            n == Len(ps)
        IN  /\ r.count[k] = n
            /\ n = 0 => (r.avg_rating[k] = 0 /\ r.score[k] = 0)
            /\ n > 0 => /\ IsRounded(r.avg_rating[k], 10 * RatingSum(ps), n)
                        /\ IsRounded(r.score[k], 30 * n * n + 7 * RatingSum(ps), n)
            /\ ps = <<Place(Num(40)), Place(Num(44))>> =>
                   (r.avg_rating[k] = 420 /\ r.score[k] = 354)

\* three places rated 4.0, 4.0 and 4.4: the mean 4.1333... is reported as 4.13
C16_Witness ==
    \E r \in Emitted : \E k \in DOMAIN r.points :
        /\ r.points[k] = <<Place(Num(40)), Place(Num(40)), Place(Num(44))>>
        /\ r.avg_rating[k] = 413
        /\ r.score[k] = 379

\* the sum of f over the keys of K
RECURSIVE SumOver(_, _)
SumOver(f, K) ==
    IF K = {} THEN 0
    ELSE LET k == CHOOSE x \in K : TRUE IN f[k] + SumOver(f, K \ {k})

\* the category keys of the analyzer's catalog
KeysOfCatalog == {catalog[i].key : i \in 1..Len(catalog)}

\* C17: in the rated analyzer, every row whose categories have all been processed gets
\* an overall score, which is the mean of the scores of all categories of the catalog,
\* those that scored 0 included, rounded to two decimals.
C17_OverallIsMeanOverCatalog ==
    /\ pc # "raised"
    /\ \A r \in Emitted :
           r.located =>
               /\ DOMAIN r.score = KeysOfCatalog
               /\ r.overall # Absent
               /\ IsRounded(r.overall.v, SumOver(r.score, KeysOfCatalog), Len(catalog))

\* two categories, one of which scored 0: the overall score is half the other's score
C17_Witness ==
    \E r \in Emitted :
        /\ r.located /\ Len(catalog) = 2
        /\ r.score["schools"] = 354 /\ r.score["gyms"] = 0
        /\ r.overall = Num(177)

Inputs(r) == [prop |-> r.prop, coord |-> r.coord, points |-> r.points]

\* the keys of the emitted dict other than analysis_date
ProfileButDate(r) ==
    [prop |-> r.prop, analysis_radius |-> r.analysis_radius,
     latitude |-> r.latitude, longitude |-> r.longitude,
     count |-> r.count, closest |-> r.closest, total |-> r.total,
     avg_rating |-> r.avg_rating, score |-> r.score, overall |-> r.overall,
     error |-> r.error]

\* C19 as stated: two runs of the pipeline on the same row with the same provider
\* answers give records that agree in every field.
C19_RerunIdentical ==
    \A r1 \in Emitted, r2 \in Emitted :
        Inputs(r1) = Inputs(r2) =>
            /\ ProfileButDate(r1) = ProfileButDate(r2)
            /\ r1.analysis_date = r2.analysis_date

\* C19 as amended: they agree in every field other than analysis_date, the wall-clock
\* time of the run.
C19_RerunIdenticalButDate ==
    \A r1 \in Emitted, r2 \in Emitted :
        Inputs(r1) = Inputs(r2) => ProfileButDate(r1) = ProfileButDate(r2)

\* the same row processed twice, geocoded, with the same points found both times
C19_Witness ==
    /\ variant = "detailed" /\ Len(emitted) = 2
    /\ Inputs(emitted[1]) = Inputs(emitted[2])
    /\ emitted[1].located /\ emitted[1].total = Num(4)
    /\ emitted[1].analysis_date # emitted[2].analysis_date

\* C20: every failed external call leaves a log record.  A failed category query: the
\* step that sent it wrote a record.  A failed geocoding: the rated geocoder wrote a
\* record, and the detailed analyzer wrote one when it emitted the degraded record.
\* (Records of every level count, those below the configured level included.)
C20_FailuresAreLogged ==
    /\ ( /\ variant = "detailed" /\ pc = "querying" /\ cat > 1
          /\ catalog[cat - 1].key \in failed ) => logs # <<>>
    /\ ( /\ variant = "rated" /\ pc = "querying" /\ tag = 2
          /\ catalog[cat].key \in failed ) => logs # <<>>
    /\ (variant = "rated" /\ pc = "geocoded" /\ ~geo.ok) => logs # <<>>
    /\ ( /\ variant = "detailed" /\ pc = "loop" /\ idx >= 1
          /\ emitted[idx].latitude = Str(<<>>) ) => logs # <<>>

\* C21: the distance from a to b is the distance from b to a, for every pair of
\* measured points.
C21_DistanceSymmetric ==
    pc = "measured" => measured.ab = measured.ba

\* two points of the grid that differ in latitude and in longitude, one on the equator
C21_Witness ==
    /\ pc = "measured"
    /\ measured.a[1] = 0 /\ measured.b[1] = Deg60
    /\ measured.a[2] # measured.b[2]
    /\ measured.ab = measured.ba /\ measured.ab.v > 0

\* C22: the distance from a point to itself is 0.
C22_DistanceToSelfZero ==
    pc = "measured" => measured.aa = Num(0)

\* a point of the grid off the equator and off the zero meridian
C22_Witness ==
    /\ pc = "measured"
    /\ measured.a = <<Deg60, -Deg60>>
    /\ measured.aa = Num(0)

\* C23: a row for which the geocoder returned a coordinate, a latitude or longitude
\* of exactly 0 included, is never treated as a geocoding failure: every category of
\* the catalog is queried for it, its record carries no error, and the detailed
\* analyzer's record holds the coordinate.
C23_CoordinateAlwaysGeocoded ==
    \A r \in Emitted :
        r.located =>
            /\ DOMAIN r.points = CatalogKeys(variant)
            /\ r.error = Absent
            /\ variant = "detailed" =>
                  /\ r.latitude = Num(Round6(r.coord[1].v))
                  /\ r.longitude = Num(Round6(r.coord[2].v))

\* the external calls among the events of the row in progress
IsCall(e) == IsLookup(e) \/ IsQuery(e)
Calls(ev) == SelectSeq(ev, IsCall)

\* the place of a call in the order the claim prescribes: a lookup comes first, a
\* query at the place of its category in the catalog (and of its type in the category)
CallRank(e) ==
    IF IsLookup(e) THEN 0
    ELSE IF variant = "detailed"
         THEN 10 * (CHOOSE k \in 1..Len(catalog) : catalog[k].key = e.cat)
         ELSE LET k == CHOOSE c \in 1..Len(catalog) :
                           \E t \in 1..Len(catalog[c].tags) : catalog[c].tags[t] = e.cat
              IN  10 * k + (CHOOSE t \in 1..Len(catalog[k].tags) : catalog[k].tags[t] = e.cat)

\* within the row in progress a lookup precedes every query and the queries follow
\* the catalog's order
OrderedWithinListing ==
    LET calls == Calls(events)
    IN  /\ \A i \in 1..Len(calls) : IsQuery(calls[i]) => IsLookup(calls[1])
        /\ \A i \in 1..Len(calls), j \in 1..Len(calls) :
               i < j => /\ CallRank(calls[i]) <= CallRank(calls[j])
                        /\ IsQuery(calls[i]) => CallRank(calls[i]) < CallRank(calls[j])

\* C24: the external calls are strictly ordered: within a row the geocoding call
\* precedes every query call and the query calls follow the catalog's order, and
\* when a call for a row has been issued the record of every row before it has
\* been emitted.
C24_CallsStrictlyOrdered ==
    /\ OrderedWithinListing
    /\ Calls(events) # <<>> => \A i \in 1..idx : \E r \in Emitted : r.src = i

\* the second row of a batch has been geocoded and two of its categories queried,
\* the record of the first row being out
C24_Witness ==
    /\ idx = 1 /\ Len(emitted) = 1
    /\ Len(Lookups(events)) >= 1
    /\ Len(Queries(events)) >= 2

\* C25: every proximity query call is immediately preceded by a pacing sleep, and
\* that sleep is strictly shorter than the sleep that precedes a geocoding lookup.
C25_QueryPacedBelowGeocoder ==
    \A k \in 1..Len(events) :
        IsQuery(events[k]) =>
            /\ k > 1
            /\ events[k - 1].op = "sleep"
            /\ \A j \in 2..Len(events) :
                   (IsLookup(events[j]) /\ events[j - 1].op = "sleep")
                   => events[k - 1].d < events[j - 1].d

\* every field of the row is in the enriched record, with the row's value
KeepsOriginalFields ==
    \A i \in 1..Len(emitted) :
        LET input == PropDict(properties[emitted[i].src])
            out == IF variant = "detailed" THEN EnhancedProp(emitted[i]) ELSE ResultRow(i)
        IN  \A f \in DOMAIN input : f \in DOMAIN out /\ out[f] = input[f]

\* C26: analysing a batch leaves every loaded row unchanged, and each enriched
\* record contains every field of its row with the original value.
C26_InputKeptAndCopied ==
    [](KeepsOriginalFields) /\ [][properties' = properties]_vars

\* C27: in the rated analyzer, the record of a row whose geocoding failed holds
\* count 0, average rating 0 and score 0 for every catalog category, and an overall
\* score of 0.
C27_RatedDegradedAllZero ==
    variant = "rated" =>
        \A r \in Emitted :
            ~r.located => (AllDefault(r) /\ r.overall = Num(0))

\* C28: in every record of the detailed analyzer, emitted or complete and about to
\* be emitted, the total count is the sum of the record's per-category counts; this
\* on the geocoded path, whatever category queries failed, and on the failed path.
C28_TotalIsSumOfCounts ==
    variant = "detailed" =>
        /\ \A r \in Emitted : r.total = Num(SumOver(r.count, DOMAIN r.count))
        /\ (pc = "querying" /\ cat > Len(catalog)) =>
               cur.total = Num(SumOver(cur.count, DOMAIN cur.count))

\* a geocoded row with one category whose query failed and one with two elements
C28_Witness ==
    /\ variant = "detailed" /\ pc = "querying" /\ cat > Len(catalog)
    /\ failed # {} /\ failed # KeysOfCatalog
    /\ cur.total = Num(2)
    /\ \E r \in Emitted : ~r.located /\ r.total = Num(0)

\* C29: a geocoding of a row sends at most two lookups to the provider, whatever
\* the row and whatever the provider answers: one first lookup and at most one
\* fallback lookup, which is not sent again when it fails.
C29_AtMostTwoLookups ==
    /\ Len(Lookups(geo.events)) <= 2
    /\ Len(Lookups(events)) <= 2
    /\ Len(geo.answers) <= 2

\* the first lookup found nothing and the fallback lookup failed
C29_Witness ==
    /\ variant = "detailed" /\ pc = "geocoded"
    /\ Len(Lookups(geo.events)) = 2
    /\ geo.answers[1].kind = "empty"
    /\ geo.answers[2].kind \in {"timeout", "error"}
    /\ geo.lat = None

\* C30: the detailed analyzer's batch emits exactly min(N, max_properties) records
\* for N loaded rows, built from the first rows in order; a row beyond max_properties
\* is never geocoded or queried; with no row loaded nothing is emitted and no
\* external call is made.
C30_EmitsFrontSlice ==
    variant = "detailed" =>
        /\ pc \in {"done", "saved", "raised"} =>
               Len(emitted) = Min(Len(properties), max_properties)
        /\ \A i \in 1..Len(emitted) : emitted[i].src = i
        /\ pc \in {"geocoded", "querying"} => idx + 1 <= Min(Len(properties), max_properties)
        /\ Calls(events) # <<>> => idx + 1 <= Min(Len(properties), max_properties)
        /\ properties = <<>> => (emitted = <<>> /\ events = <<>>)

====
